---- MODULE Spec2Model ----
(***************************************************************************)
(* A model of the rust-tracer rendering core: the f64 arithmetic of        *)
(* math.rs, Interval, HitRecord, Sphere::hit, HittableList::hit and the    *)
(* camera.                                                                 *)
(*                                                                         *)
(* f64 values are modelled as exact rationals [n, d] in lowest terms with  *)
(* d > 0.  Three values with d = 0 stand for the non-finite results the    *)
(* code can produce: NaN (0/0) and the two values of largest magnitude,    *)
(* +-INF (interval.rs names f64::MAX "INF").  Signed zeros are one zero.   *)
(* The rounding of f64 is kept where it decides what a ray meets: a square *)
(* root, the point and the normal a hit stores and the direction of a      *)
(* bounce are rounded to SqrtBits binary places.                           *)
(***************************************************************************)
EXTENDS Integers, Sequences, FiniteSets, TLC

----------------------------------------------------------------------------
(* Bounds of the model *)

\* the most objects a scene holds
MaxObjects == 2

\* the largest image is MaxWidth x MaxHeight
MaxWidth == 2

MaxHeight == 2

\* sample_per_pixel is at most MaxSamples
MaxSamples == 2

\* max_recursion_depth of a render is at most MaxDepth
MaxDepth == 2

\* the binary places of a rounded f64 result
SqrtBits == 5

\* the nested calls of ray_color that are followed
MaxCalls == 8

(* Program constants *)

I16Max == 32767

I16Min == -32768

\* the range of i32
I32Max == 2147483647

I32Min == -I32Max - 1

----------------------------------------------------------------------------
(* f64 *)

Abs(i) == IF i < 0 THEN -i ELSE i

Sign(i) == IF i < 0 THEN -1 ELSE IF i > 0 THEN 1 ELSE 0

RECURSIVE GCD(_, _)
GCD(a, b) == IF b = 0 THEN a ELSE GCD(b, a % b)

Reduced(n, d, g) == [n |-> Sign(n) * (Abs(n) \div g), d |-> d \div g]

\* the rational n/d (d > 0) in lowest terms
Norm(n, d) == Reduced(n, d, GCD(Abs(n), d))

R(i) == [n |-> i, d |-> 1]

Q(n, d) == Norm(n, d)

NaN == [n |-> 0, d |-> 0]

\* f64::MAX, which interval.rs calls INF
INF == [n |-> 1, d |-> 0]

NegINF == [n |-> -1, d |-> 0]

IsNaN(a) == a.d = 0 /\ a.n = 0

IsFinite(a) == a.d > 0

Huge(s) == IF s > 0 THEN INF ELSE IF s < 0 THEN NegINF ELSE NaN

RNeg(a) == [n |-> -a.n, d |-> a.d]

\* a + b for finite a and b, g the greatest common divisor of a.d and b.d
SumOver(a, b, g) ==
    Norm(a.n * (b.d \div g) + b.n * (a.d \div g), (a.d \div g) * b.d)

RAdd(a, b) ==
    IF IsNaN(a) \/ IsNaN(b) THEN NaN
    ELSE IF a.d = 0 /\ b.d = 0 THEN (IF a.n = b.n THEN a ELSE NaN)
    ELSE IF a.d = 0 THEN a
    ELSE IF b.d = 0 THEN b
    ELSE SumOver(a, b, GCD(a.d, b.d))

RSub(a, b) == RAdd(a, RNeg(b))

RMul(a, b) ==
    IF IsNaN(a) \/ IsNaN(b) THEN NaN
    ELSE IF a.d = 0 \/ b.d = 0 THEN Huge(Sign(a.n) * Sign(b.n))
    ELSE Norm(a.n * b.n, a.d * b.d)

RDiv(a, b) ==
    IF IsNaN(a) \/ IsNaN(b) THEN NaN
    ELSE IF b.d = 0 THEN (IF a.d = 0 THEN NaN ELSE R(0))
    ELSE IF b.n = 0 THEN Huge(Sign(a.n))
    ELSE IF a.d = 0 THEN Huge(Sign(a.n) * Sign(b.n))
    ELSE Norm(Sign(b.n) * a.n * b.d, a.d * Abs(b.n))

\* a < b; every comparison with NaN is false
RLt(a, b) ==
    IF IsNaN(a) \/ IsNaN(b) THEN FALSE
    ELSE IF a.d = 0 /\ b.d = 0 THEN a.n < b.n
    ELSE IF a.d = 0 THEN a.n < 0
    ELSE IF b.d = 0 THEN b.n > 0
    ELSE a.n * b.d < b.n * a.d

REq(a, b) == ~IsNaN(a) /\ ~IsNaN(b) /\ a = b

RLe(a, b) == RLt(a, b) \/ REq(a, b)

RGt(a, b) == RLt(b, a)

\* f64::max: the other operand when one is NaN
RMax(a, b) == IF IsNaN(a) THEN b ELSE IF IsNaN(b) THEN a ELSE IF RLt(a, b) THEN b ELSE a

RECURSIVE ISqrtIn(_, _, _)
ISqrtIn(n, lo, hi) ==
    IF lo >= hi THEN lo
    ELSE IF ((lo + hi + 1) \div 2) * ((lo + hi + 1) \div 2) <= n
         THEN ISqrtIn(n, (lo + hi + 1) \div 2, hi)
         ELSE ISqrtIn(n, lo, ((lo + hi + 1) \div 2) - 1)

\* the integer part of the square root of n >= 0
ISqrt(n) == ISqrtIn(n, 0, IF n < 46340 THEN n ELSE 46340)

RECURSIVE Pow2(_)
Pow2(k) == IF k = 0 THEN 1 ELSE 2 * Pow2(k - 1)

\* the denominator of the square roots that are not rational
SqrtDen == Pow2(SqrtBits)

\* the integer part of (n/d) * 2^k, for 0 <= n < d, a binary place at a time
RECURSIVE ScaleUp(_, _, _)
ScaleUp(n, d, k) ==
    IF k = 0 THEN 0
    ELSE ((2 * n) \div d) * Pow2(k - 1) + ScaleUp((2 * n) % d, d, k - 1)

\* the integer part of a * 2^k
FloorScaled(a, k) == (a.n \div a.d) * Pow2(k) + ScaleUp(a.n % a.d, a.d, k)

\* the multiple of 1/SqrtDen nearest to the square root of a > 0: half of
\* the integer part of twice the root, rounded
RoundedSqrt(a) ==
    Norm((ISqrt(FloorScaled(a, 2 * SqrtBits + 2)) + 1) \div 2, SqrtDen)

\* f64::sqrt: the square root correctly rounded, here to SqrtBits binary
\* places (so exact when the root is a multiple of 1/SqrtDen); NaN below zero
RSqrt(a) ==
    IF IsNaN(a) \/ a.n < 0 THEN NaN
    ELSE IF a.d = 0 THEN INF
    ELSE RoundedSqrt(a)

\* the rounding of a stored f64 result: the nearest multiple of 1/SqrtDen
Rounded(a) ==
    IF a.d = 0 THEN a ELSE Norm((FloorScaled(a, SqrtBits + 1) + 1) \div 2, SqrtDen)

Saturate(q) == IF q > I16Max THEN I16Max ELSE IF q < I16Min THEN I16Min ELSE q

\* `x as i16` on a float: truncation toward zero, saturating, NaN to 0
AsI16(a) ==
    IF IsNaN(a) THEN 0
    ELSE IF a.d = 0 THEN (IF a.n > 0 THEN I16Max ELSE I16Min)
    ELSE Saturate(Sign(a.n) * (Abs(a.n) \div a.d))

----------------------------------------------------------------------------
(* math.rs: Vec3 *)

Vec3(x, y, z) == <<x, y, z>>

V(i, j, k) == <<R(i), R(j), R(k)>>

VZero == V(0, 0, 0)

VAdd(a, b) == <<RAdd(a[1], b[1]), RAdd(a[2], b[2]), RAdd(a[3], b[3])>>

VSub(a, b) == <<RSub(a[1], b[1]), RSub(a[2], b[2]), RSub(a[3], b[3])>>

\* Mul<f64> for Vec3 and Mul<Vec3> for f64
VScale(a, s) == <<RMul(a[1], s), RMul(a[2], s), RMul(a[3], s)>>

VDiv(a, s) == <<RDiv(a[1], s), RDiv(a[2], s), RDiv(a[3], s)>>

VNeg(a) == <<RNeg(a[1]), RNeg(a[2]), RNeg(a[3])>>

Dot(a, b) == RAdd(RAdd(RMul(a[1], b[1]), RMul(a[2], b[2])), RMul(a[3], b[3]))

Length2(a) == Dot(a, a)

Length(a) == RSqrt(Length2(a))

\* Vec3::normal: the vector scaled to unit length
Normal(a) == VDiv(a, Length(a))

\* Vec3::cross
Cross(a, v) ==
    Vec3(RSub(RMul(a[2], v[3]), RMul(a[3], v[2])),
         RSub(RMul(a[1], v[3]), RMul(a[3], v[1])),
         RSub(RMul(a[1], v[2]), RMul(a[2], v[1])))

VRounded(a) == <<Rounded(a[1]), Rounded(a[2]), Rounded(a[3])>>

VIsNaN(a) == IsNaN(a[1]) \/ IsNaN(a[2]) \/ IsNaN(a[3])

----------------------------------------------------------------------------
(* ray.rs: origin, direction and the point at parameter t *)

Ray(origin, direction) == [origin |-> origin, direction |-> direction]

At(ray, t) == VAdd(ray.origin, VScale(ray.direction, t))

----------------------------------------------------------------------------
(* interval.rs *)

Interval(min, max) == [min |-> min, max |-> max]

Positive == Interval(R(0), INF)

Contains(iv, v) == RLe(iv.min, v) /\ RLe(v, iv.max)

Clamp(iv, v) ==
    IF RLt(v, iv.min) THEN iv.min
    ELSE IF RGt(v, iv.max) THEN iv.max
    ELSE v

----------------------------------------------------------------------------
(* hittable.rs: HitRecord.  Option<T> is a sequence of at most one T. *)

None == <<>>

Some(x) == <<x>>

IsSome(o) == Len(o) = 1

Unwrap(o) == o[1]

\* the record with front_face ff
Faced(rec, outward_normal, ff) ==
    [rec EXCEPT !.front_face = Some(ff),
                !.normal = IF ff THEN outward_normal ELSE VNeg(outward_normal)]

SetFaceNormal(rec, ray, outward_normal) ==
    Faced(rec, outward_normal, RLt(Dot(ray.direction, outward_normal), R(0)))

HitRecordNew(point, outward_normal, t, ray) ==
    SetFaceNormal([point |-> point, normal |-> outward_normal, t |-> t,
                   front_face |-> None], ray, outward_normal)

----------------------------------------------------------------------------
(* sphere.rs *)

SphereNew(center, radius) == [center |-> center, radius |-> RMax(radius, R(0))]

\* the half-coefficients of the quadratic |Q + t d - C|^2 = r^2
QuadA(s, ray) == Length2(ray.direction)

QuadH(s, ray) == Dot(ray.direction, VSub(s.center, ray.origin))

QuadC(s, ray) ==
    RSub(Length2(VSub(s.center, ray.origin)), RMul(s.radius, s.radius))

DiscriminantOf(a, h, c) == RSub(RMul(h, h), RMul(a, c))

Discriminant(s, ray) == DiscriminantOf(QuadA(s, ray), QuadH(s, ray), QuadC(s, ray))

SmallRoot(s, ray) ==
    RDiv(RSub(QuadH(s, ray), RSqrt(Discriminant(s, ray))), QuadA(s, ray))

LargeRoot(s, ray) ==
    RDiv(RAdd(QuadH(s, ray), RSqrt(Discriminant(s, ray))), QuadA(s, ray))

\* the outward normal of s at the point p
OutwardNormal(s, p) == VRounded(VDiv(VSub(p, s.center), s.radius))

\* the record of the hit at hit_point, the point of the ray at root
RecordAt(s, ray, root, hit_point) ==
    Some(HitRecordNew(hit_point, OutwardNormal(s, hit_point), root, ray))

SphereRecord(s, ray, root) == RecordAt(s, ray, root, VRounded(At(ray, root)))

\* the choice between the two roots
ChooseRoot(s, ray, bounds, small, large) ==
    IF Contains(bounds, small) THEN SphereRecord(s, ray, small)
    ELSE IF Contains(bounds, large) THEN SphereRecord(s, ray, large)
    ELSE None

\* Sphere::hit from the discriminant and its square root on
HitFrom(s, ray, bounds, a, h, discriminant, sqrtd) ==
    IF RLt(discriminant, R(0)) THEN None
    ELSE ChooseRoot(s, ray, bounds, RDiv(RSub(h, sqrtd), a), RDiv(RAdd(h, sqrtd), a))

\* Sphere::hit from a, h and c on
HitWith(s, ray, bounds, a, h, discriminant) ==
    HitFrom(s, ray, bounds, a, h, discriminant, RSqrt(discriminant))

\* Sphere::hit without the retry on the larger root
SphereHitNearOnly(s, ray, bounds) ==
    IF RLt(Discriminant(s, ray), R(0)) THEN None
    ELSE IF Contains(bounds, SmallRoot(s, ray))
         THEN SphereRecord(s, ray, SmallRoot(s, ray))
    ELSE None

SphereHit(s, ray, bounds) ==
    HitWith(s, ray, bounds, QuadA(s, ray), QuadH(s, ray), Discriminant(s, ray))

----------------------------------------------------------------------------
(* hittable.rs: HittableList *)

\* one iteration of the for loop of HittableList::hit on object obj; the
\* loop state is [ret, closest]
Closer(st, rec) ==
    IF IsSome(rec) /\ RGt(st.closest, Unwrap(rec).t)
    THEN [ret |-> rec, closest |-> Unwrap(rec).t]
    ELSE st

ScanObject(st, obj, ray, bound) == Closer(st, SphereHit(obj, ray, bound))

RECURSIVE ScanFrom(_, _, _, _, _)
ScanFrom(st, objects, i, ray, bound) ==
    IF i > Len(objects) THEN st
    ELSE ScanFrom(ScanObject(st, objects[i], ray, bound), objects, i + 1, ray, bound)

HittableListHit(objects, ray, bound) ==
    ScanFrom([ret |-> None, closest |-> bound.max], objects, 1, ray, bound).ret

----------------------------------------------------------------------------
(* image.rs and camera.rs: the camera and its viewport mapping *)

Image(width, height) == [width |-> width, height |-> height]

\* an is_valid that looks at the height only
IsValidHeight(img) == ~(img.height < 1)

\* Image::is_valid
IsValid(img) == ~(img.height < 1 \/ img.width < 1)

\* Result: Ok(value) or Err(message)
Ok(value) == [ok |-> TRUE, value |-> value]

Err(message) == [ok |-> FALSE, value |-> message]

\* Image::new
ImageNew(width, height) ==
    IF IsValid(Image(width, height)) THEN Ok(Image(width, height))
    ELSE Err("Image is not valid")

\* `x as i32` on a float: truncation toward zero, saturating, NaN to 0
AsI32(a) ==
    IF IsNaN(a) THEN 0
    ELSE IF a.d = 0 THEN (IF a.n > 0 THEN I32Max ELSE I32Min)
    ELSE Sign(a.n) * (Abs(a.n) \div a.d)

\* Image::from_aspect_ratio
FromAspectRatio(width, aspect_ratio) ==
    ImageNew(width, AsI32(RDiv(R(width), aspect_ratio)))

IdealRatio(img) == RDiv(R(img.width), R(img.height))

CameraNew(img) ==
    [focal_length |-> R(0), viewport_height |-> R(0), viewport_width |-> R(0),
     image |-> img, center |-> VZero, sample_per_pixel |-> 100,
     max_recursion_depth |-> 10]

SetViewportFromHeight(c, viewport_height) ==
    [c EXCEPT !.viewport_height = viewport_height,
              !.viewport_width = RMul(viewport_height, IdealRatio(c.image))]

ViewportU(c) == Vec3(c.viewport_width, R(0), R(0))

ViewportV(c) == Vec3(R(0), RNeg(c.viewport_height), R(0))

DeltaU(c) == VDiv(ViewportU(c), R(c.image.width))

DeltaV(c) == VDiv(ViewportV(c), R(c.image.height))

UpperLeftViewport(c) ==
    VSub(VSub(c.center, Vec3(R(0), R(0), c.focal_length)),
         VScale(VAdd(ViewportU(c), ViewportV(c)), Q(1, 2)))

\* an upper-left pixel put on the corner of the viewport
UpperLeftPixelAtCorner(c) == UpperLeftViewport(c)

UpperLeftPixel(c) ==
    VAdd(UpperLeftViewport(c), VScale(VAdd(DeltaU(c), DeltaV(c)), Q(1, 2)))

ViewportContext(c) ==
    [upper_left_pixel |-> UpperLeftPixel(c), delta_u |-> DeltaU(c), delta_v |-> DeltaV(c)]

\* Camera::sample_square on the two values normal_random() returns
SampleSquare(r1, r2) == Vec3(RSub(r1, Q(1, 2)), RSub(r2, Q(1, 2)), R(0))

\* Camera::get_ray, with the offset sample_square() gave it
PixelSample(u, v, ctx, offset) ==
    VAdd(ctx.upper_left_pixel,
         VAdd(VScale(ctx.delta_u, RAdd(R(u), offset[1])),
              VScale(ctx.delta_v, RAdd(R(v), offset[2]))))

GetRay(c, u, v, ctx, offset) ==
    Ray(c.center, VSub(PixelSample(u, v, ctx, offset), c.center))

----------------------------------------------------------------------------
(* math.rs: random vectors, on the values normal_random() returns *)

\* Vec3::random(min, max) on three values of normal_random()
RandomIn(range, min, d) ==
    Vec3(RAdd(RMul(d[1], range), min), RAdd(RMul(d[2], range), min),
         RAdd(RMul(d[3], range), min))

VRandom(min, max, d) == RandomIn(RSub(max, min), min, d)

\* the test of the loop of Vec3::unit_random_on_sphere; every positive
\* number of the model is above 1e-100
Accepted(vec) == RLt(R(0), Length2(vec)) /\ RLe(Length2(vec), R(1))

\* what it returns for an accepted vector
UnitRandomOnSphere(vec) == VDiv(vec, RSqrt(Length2(vec)))

Lerp(start, end, t) == VAdd(VScale(start, RSub(R(1), t)), VScale(end, t))

----------------------------------------------------------------------------
(* camera.rs: linear_to_gamma and the ppm module *)

\* a transform that leaves the linear value as it is
LinearToGammaLinear(linear_component) ==
    IF RGt(linear_component, R(0)) THEN linear_component ELSE R(0)

LinearToGamma(linear_component) ==
    IF RGt(linear_component, R(0)) THEN RSqrt(linear_component) ELSE R(0)

Intensity == Interval(R(0), Q(999, 1000))

\* a write_color that does not clamp
ChannelUnclamped(x) == AsI16(RMul(R(255), LinearToGamma(x)))

\* one channel of ppm::write_color: the integer it formats
Channel(x) == AsI16(RMul(R(255), Clamp(Intensity, LinearToGamma(x))))

\* the three integers of ppm::write_color
Triplet(c) == <<Channel(c[1]), Channel(c[2]), Channel(c[3])>>

\* the text of ppm::header: "P3\n{w} {h}\n255\n"
HeaderText(img) == <<"P3", img.width, img.height, 255>>

----------------------------------------------------------------------------
(* camera.rs: Camera::ray_color, a call at a time.  rc is the innermost    *)
(* call: its ray and depth, the number of nested calls made since the      *)
(* outermost call (started with depth `start`), and, once it has returned, *)
(* the colour the outermost call returns.                                  *)

White == Vec3(R(1), R(1), R(1))

Blue == Vec3(Q(1, 2), Q(7, 10), R(1))

Black == VZero

Background(r) ==
    Lerp(White, Blue, RMul(Q(1, 2), RAdd(Normal(r.direction)[2], R(1))))

RECURSIVE Halved(_, _)
\* x multiplied k times by 0.5
Halved(x, k) ==
    IF k = 0 \/ x.n = 0 THEN x ELSE Halved(RMul(Q(1, 2), x), k - 1)

\* the colour c after the `0.5 *` of k returning calls
Attenuate(c, k) == <<Halved(c[1], k), Halved(c[2], k), Halved(c[3], k)>>

RayColorEnter(r, depth) ==
    [st |-> "call", ray |-> r, depth |-> depth, start |-> depth, calls |-> 0,
     tests |-> 0, result |-> Black]

NoCall == [RayColorEnter(Ray(VZero, VZero), 0) EXCEPT !.st = "none"]

\* `depth - 1` on an i16
DepthOverflows(depth) == depth = I16Min

Decrement(depth) == IF depth = I16Min THEN I16Max ELSE depth - 1

\* one call of ray_color; vec is the vector the loop of
\* unit_random_on_sphere accepts if the call draws one
\* the call after world.hit(ray, Interval::positive()) returned hit
RayColorOn(rc, hit, vec, bld) ==
    IF IsSome(hit)
    THEN IF DepthOverflows(rc.depth) /\ bld = "debug"
         THEN [rc EXCEPT !.st = "panicked", !.tests = @ + 1]
         ELSE [rc EXCEPT !.ray = Ray(Unwrap(hit).point,
                                     VRounded(VAdd(Unwrap(hit).normal,
                                                   UnitRandomOnSphere(vec)))),
                         !.depth = Decrement(rc.depth),
                         !.calls = @ + 1,
                         !.tests = @ + 1]
    ELSE [rc EXCEPT !.st = "returned", !.tests = @ + 1,
                    !.result = Attenuate(Background(rc.ray), rc.calls)]

RayColorCall(rc, objects, vec, bld) ==
    IF rc.depth = 0
    THEN [rc EXCEPT !.st = "returned", !.result = Attenuate(Black, rc.calls)]
    ELSE RayColorOn(rc, HittableListHit(objects, rc.ray, Positive), vec, bld)

----------------------------------------------------------------------------
(* camera.rs: Camera::render, a write or a call of ray_color at a time.    *)
(* log is the sequence of the writes made to the sink, each with whether   *)
(* it succeeded; last is the triplet of the last write_color.              *)

IdleRun ==
    [pc |-> "idle", v |-> 0, u |-> 0, s |-> 0, color |-> Black, rc |-> NoCall,
     offset |-> VZero, log |-> <<>>, header |-> <<>>, arg |-> Black,
     last |-> <<>>, pixels |-> 0,
     jitter0 |-> TRUE, primary |-> FALSE]

NoCamera == CameraNew(Image(1, 1))

\* render is entered
RenderEnter == [IdleRun EXCEPT !.pc = "header"]

Wrote(run, kind, ok) ==
    Append(run.log, [kind |-> kind, ok |-> ok, u |-> run.u, v |-> run.v])

\* ppm::header(target, &self.image)?
RenderHeader(run, c, ok) ==
    IF ok
    THEN [run EXCEPT !.log = Wrote(run, "H", TRUE), !.pc = "sample",
                     !.header = HeaderText(c.image)]
    ELSE [run EXCEPT !.log = Wrote(run, "H", FALSE), !.pc = "err"]

\* the sample loop goes on: get_ray, and ray_color is entered
MoreSamples(run, c) == run.pc = "sample" /\ run.s < c.sample_per_pixel

\* a render that hands ray_color one bounce more than max_recursion_depth
SampleAtDeeper(run, c, offset) ==
    [run EXCEPT !.pc = "color", !.offset = offset,
                !.jitter0 = @ /\ offset = VZero,
                !.rc = RayColorEnter(GetRay(c, run.u, run.v, ViewportContext(c), offset),
                                     c.max_recursion_depth + 1)]

SampleAt(run, c, offset) ==
    [run EXCEPT !.pc = "color", !.offset = offset,
                !.jitter0 = @ /\ offset = VZero,
                !.rc = RayColorEnter(GetRay(c, run.u, run.v, ViewportContext(c), offset),
                                     c.max_recursion_depth)]

BeginSample(run, c, r1, r2) == SampleAt(run, c, SampleSquare(r1, r2))

\* a call of ray_color; when the outermost call returns, color += its result
\* the outermost call found an object on the primary ray
HitFirst(run, rc) == run.rc.calls = 0 /\ (rc.calls = 1 \/ rc.st = "panicked")

Stepped(run, rc, hitFirst) ==
    IF rc.st = "returned"
    THEN [run EXCEPT !.rc = rc, !.pc = "sample", !.s = @ + 1,
                     !.color = VAdd(run.color, rc.result),
                     !.primary = @ \/ hitFirst]
    ELSE IF rc.st = "panicked"
    THEN [run EXCEPT !.rc = rc, !.pc = "panic", !.primary = @ \/ hitFirst]
    ELSE [run EXCEPT !.rc = rc, !.primary = @ \/ hitFirst]

SteppedTo(run, rc) == Stepped(run, rc, HitFirst(run, rc))

ColorStep(run, objects, vec, bld) ==
    SteppedTo(run, RayColorCall(run.rc, objects, vec, bld))

\* the sample loop is over: color / sample_per_pixel, write_color(..)?
SamplesDone(run, c) == run.pc = "sample" /\ run.s >= c.sample_per_pixel

\* ppm::write_color(target, &color)?; arg is the colour it was given
WriteColor(run, c, color, ok) ==
    IF ok
    THEN [run EXCEPT !.log = Wrote(run, "P", TRUE), !.last = Triplet(color),
                     !.arg = color, !.pixels = @ + 1, !.color = Black, !.s = 0,
                     !.u = @ + 1,
                     !.pc = IF run.u + 1 < c.image.width THEN "sample" ELSE "newline"]
    ELSE [run EXCEPT !.log = Wrote(run, "P", FALSE), !.last = Triplet(color),
                     !.arg = color, !.pixels = @ + 1, !.pc = "err"]

WritePixel(run, c, ok) ==
    WriteColor(run, c, VDiv(run.color, R(c.sample_per_pixel)), ok)

\* a render that drops the result of new_line instead of returning it
NewLineUnchecked(run, c, ok) ==
    [run EXCEPT !.log = Wrote(run, "N", ok), !.u = 0, !.v = @ + 1,
                !.pc = IF run.v + 1 < c.image.height THEN "sample" ELSE "ok"]

\* ppm::new_line(target)? after the row; after the last row render returns Ok
NewLine(run, c, ok) ==
    IF ok
    THEN [run EXCEPT !.log = Wrote(run, "N", TRUE), !.u = 0, !.v = @ + 1,
                     !.pc = IF run.v + 1 < c.image.height THEN "sample" ELSE "ok"]
    ELSE [run EXCEPT !.log = Wrote(run, "N", FALSE), !.pc = "err"]

----------------------------------------------------------------------------
(* The scene and one call of HittableList::hit on it, an iteration of its  *)
(* loop at a time.                                                         *)

VARIABLES
    world,      \* HittableList.objects
    ray,        \* the ray of the call
    bound,      \* the interval of the call
    idx,        \* the position of the for loop in objects
    scan,       \* the loop's [ret, closest]
    rec,        \* what obj.hit returned in the last iteration
    pc,         \* "build", "scan", "done"
    cam,        \* the Camera
    build,      \* "debug" (integer overflow panics) or "release" (it wraps)
    runA,       \* a call of Camera::render
    runB,       \* a second call, on the same camera and scene
    args,       \* the arguments of a call of a function of math.rs or image.rs
    ret         \* what the call returned

hitVars == <<world, ray, bound, idx, scan, rec, pc>>

renderVars == <<cam, build, runA, runB>>

callVars == <<args, ret>>

vars == <<hitVars, renderVars, callVars>>

\* the inputs of the calls
HitOrigins == {V(0, 0, 0), V(0, 0, -2)}

HitDirections == {V(0, 0, -1), V(0, 0, -2), V(0, 0, 1), V(0, 0, 0)}

HitBounds == {Positive, Interval(R(0), R(1)), Interval(R(1), R(3))}

SphereCenters == {V(0, 0, -2), V(0, 0, -5), V(3, 0, -5)}

SphereRadii == {R(-1), R(0), R(1), R(5)}

HitInit ==
    /\ world = <<>>
    /\ ray = Ray(VZero, VZero)
    /\ bound = Positive
    /\ idx = 0
    /\ scan = [ret |-> None, closest |-> INF]
    /\ rec = None
    /\ args = <<>>
    /\ ret = None
    /\ pc = "build"
    /\ cam = NoCamera
    /\ build = "release"
    /\ runA = IdleRun
    /\ runB = IdleRun

\* HittableList::add of a sphere made by Sphere::new
Add(center, radius) ==
    /\ pc = "build"
    /\ Len(world) < MaxObjects
    /\ world' = Append(world, SphereNew(center, radius))
    /\ UNCHANGED <<ray, bound, idx, scan, rec, pc>>
    /\ UNCHANGED <<renderVars, callVars>>

\* HittableList::hit is entered
HitEnter(origin, direction, b) ==
    /\ pc = "build"
    /\ ray' = Ray(origin, direction)
    /\ bound' = b
    /\ idx' = 1
    /\ scan' = [ret |-> None, closest |-> b.max]
    /\ rec' = None
    /\ pc' = "scan"
    /\ UNCHANGED world
    /\ UNCHANGED <<renderVars, callVars>>

\* one iteration of its loop
HitStep ==
    /\ pc = "scan"
    /\ idx <= Len(world)
    /\ rec' = SphereHit(world[idx], ray, bound)
    /\ scan' = Closer(scan, rec')
    /\ idx' = idx + 1
    /\ UNCHANGED <<world, ray, bound, pc>>
    /\ UNCHANGED <<renderVars, callVars>>

\* it returns ret
HitReturn ==
    /\ pc = "scan"
    /\ idx > Len(world)
    /\ pc' = "done"
    /\ UNCHANGED <<world, ray, bound, idx, scan, rec>>
    /\ UNCHANGED <<renderVars, callVars>>

HitNext ==
    \/ \E c \in SphereCenters, r \in SphereRadii : Add(c, r)
    \/ \E o \in HitOrigins, d \in HitDirections, b \in HitBounds : HitEnter(o, d, b)
    \/ HitStep
    \/ HitReturn

Spec == HitInit /\ [][HitNext]_vars

----------------------------------------------------------------------------
(* Intersections, stated from the sphere's equation *)

\* the point p lies on the surface of s
OnSphere(s, p) == REq(Length2(VSub(p, s.center)), RMul(s.radius, s.radius))

\* the parameters at which the ray meets the surface of s
Intersections(s, r) ==
    {t \in {SmallRoot(s, r), LargeRoot(s, r)} : IsFinite(t) /\ OnSphere(s, At(r, t))}

\* the parameters inside the interval iv at which the ray meets an object
HitsWithin(objects, r, iv) ==
    {t \in UNION {Intersections(objects[i], r) : i \in 1..Len(objects)} :
        Contains(iv, t)}

\* the parameters below the interval's max among them
HitsBelowMax(objects, r, iv) == {t \in HitsWithin(objects, r, iv) : RLt(t, iv.max)}

IsLeast(t, ts) == t \in ts /\ \A u \in ts : RLe(t, u)

\* C1: when HittableList::hit returns, it returns None if and only if no
\* object meets the ray at a t inside [bound.min, bound.max], and otherwise a
\* record whose t is the least such t (a t equal to bound.max included).
C1_NearestWithinClosed ==
    pc = "done" =>
        /\ (scan.ret = None) <=> (HitsWithin(world, ray, bound) = {})
        /\ IsSome(scan.ret) => IsLeast(Unwrap(scan.ret).t, HitsWithin(world, ray, bound))

\* What the loop computes: the least t among the intersections inside the
\* interval and strictly below its max.
NearestBelowMax ==
    pc = "done" =>
        /\ (scan.ret = None) <=> (HitsBelowMax(world, ray, bound) = {})
        /\ IsSome(scan.ret) => IsLeast(Unwrap(scan.ret).t, HitsBelowMax(world, ray, bound))

----------------------------------------------------------------------------
(* Sphere::hit and HitRecord::new, on the object of the last iteration *)

\* an iteration has run: rec is what Sphere::hit returned for LastObject
Scanned == pc \in {"scan", "done"} /\ idx > 1

LastObject == world[idx - 1]

\* C2: Sphere::hit returns None when the discriminant is negative; otherwise
\* the smaller root if it lies in bounds, else the larger root if that one
\* lies in bounds, else None.  A returned t lies inside bounds, its point is
\* on the sphere, and when the smaller root is below bounds.min the record
\* is the one of the larger root.
C2_TwoRootPolicy ==
    Scanned =>
        LET s == LastObject
            small == SmallRoot(s, ray)
            large == LargeRoot(s, ray)
        IN  /\ RLt(Discriminant(s, ray), R(0)) => rec = None
            /\ ~RLt(Discriminant(s, ray), R(0)) =>
                  IF Contains(bound, small)
                  THEN IsSome(rec) /\ Unwrap(rec).t = small
                  ELSE IF Contains(bound, large)
                  THEN IsSome(rec) /\ Unwrap(rec).t = large
                  ELSE rec = None
            /\ IsSome(rec) =>
                  /\ Contains(bound, Unwrap(rec).t)
                  /\ Unwrap(rec).point = At(ray, Unwrap(rec).t)
                  /\ OnSphere(s, Unwrap(rec).point)
                  /\ RLe(small, large)
                  /\ RLt(small, bound.min) => Unwrap(rec).t = large

\* the ray starts inside the sphere and the record is the far root's
C2_Witness ==
    /\ Scanned
    /\ IsSome(rec)
    /\ RLt(SmallRoot(LastObject, ray), bound.min)
    /\ RLt(SmallRoot(LastObject, ray), LargeRoot(LastObject, ray))
    /\ Unwrap(rec).t = LargeRoot(LastObject, ray)

\* C3: every record has front_face set, true exactly when the direction
\* and the outward normal have a negative dot product; the stored normal is
\* the outward normal when front_face is true and its negation otherwise,
\* so direction . normal <= 0.
C3_FaceNormal ==
    (Scanned /\ IsSome(rec)) =>
        LET r == Unwrap(rec)
            out == OutwardNormal(LastObject, r.point)
        IN  /\ IsSome(r.front_face)
            /\ Unwrap(r.front_face) <=> RLt(Dot(ray.direction, out), R(0))
            /\ r.normal = IF Unwrap(r.front_face) THEN out ELSE VNeg(out)
            /\ RLe(Dot(ray.direction, r.normal), R(0))

\* the same with the record's normal a vector of numbers
FaceNormalOfFiniteNormal ==
    (Scanned /\ IsSome(rec) /\ ~VIsNaN(Unwrap(rec).normal)) =>
        LET r == Unwrap(rec)
            out == OutwardNormal(LastObject, r.point)
        IN  /\ IsSome(r.front_face)
            /\ Unwrap(r.front_face) <=> RLt(Dot(ray.direction, out), R(0))
            /\ r.normal = IF Unwrap(r.front_face) THEN out ELSE VNeg(out)
            /\ RLe(Dot(ray.direction, r.normal), R(0))

\* C4: the normal of every record Sphere::hit returns has unit length, for
\* every sphere Sphere::new can construct, radius 0 included.
C4_UnitNormal ==
    (Scanned /\ IsSome(rec)) => REq(Length(Unwrap(rec).normal), R(1))

\* the same for the spheres of positive radius
UnitNormalOfPositiveRadius ==
    (Scanned /\ IsSome(rec) /\ RGt(LastObject.radius, R(0))) =>
        REq(Length(Unwrap(rec).normal), R(1))

\* a sphere of positive radius was hit
PositiveRadiusHit == Scanned /\ IsSome(rec) /\ RGt(LastObject.radius, R(0))

----------------------------------------------------------------------------
(* One call of Camera::render, as main.rs sets the camera up, on a sink    *)
(* whose writes may fail.                                                  *)

\* the camera of main.rs, on a w x h image
MainCamera(w, h, samples, depth) ==
    [SetViewportFromHeight(CameraNew(Image(w, h)), R(2))
        EXCEPT !.focal_length = R(1), !.sample_per_pixel = samples,
               !.max_recursion_depth = depth]

\* the scenes rendered
SmallSphere == SphereNew(V(0, 0, -1), Q(1, 2))

PointSphere == SphereNew(V(0, 0, -1), R(0))

RenderScenes == {<<>>, <<SmallSphere>>, <<PointSphere>>}

\* the values normal_random() returns to sample_square
JitterDraws == {<<Q(1, 2), Q(1, 2)>>, <<R(0), Q(3, 4)>>}

\* the values it returns to Vec3::random(-1.0, 1.0): the vectors (0,0,-1),
\* (0,1/2,0), (0,-1,0) and (-1,-1,-1)
BounceDraws ==
    {<<Q(1, 2), Q(1, 2), R(0)>>, <<Q(1, 2), Q(3, 4), Q(1, 2)>>,
     <<Q(1, 2), R(0), Q(1, 2)>>, <<R(0), R(0), R(0)>>}

\* the vectors the loop of unit_random_on_sphere can leave with
BounceVecs == {vec \in {VRandom(R(-1), R(1), d) : d \in BounceDraws} : Accepted(vec)}

RenderInit ==
    /\ world \in RenderScenes
    /\ \E w \in 1..MaxWidth, h \in 1..MaxHeight, n \in {-1, 0, MaxSamples},
          d \in {0, MaxDepth} :
          cam = MainCamera(w, h, n, d)
    /\ build = "release"
    /\ runA = RenderEnter
    /\ runB = IdleRun
    /\ ray = Ray(VZero, VZero)
    /\ bound = Positive
    /\ idx = 0
    /\ scan = [ret |-> None, closest |-> INF]
    /\ rec = None
    /\ args = <<>>
    /\ ret = None
    /\ pc = "render"

Header(ok) ==
    /\ runA.pc = "header"
    /\ runA' = RenderHeader(runA, cam, ok)
    /\ UNCHANGED <<callVars, hitVars, cam, build, runB>>

Sample(j) ==
    /\ MoreSamples(runA, cam)
    /\ runA' = BeginSample(runA, cam, j[1], j[2])
    /\ UNCHANGED <<callVars, hitVars, cam, build, runB>>

Color(vec) ==
    /\ runA.pc = "color"
    /\ runA' = ColorStep(runA, world, vec, build)
    /\ UNCHANGED <<callVars, hitVars, cam, build, runB>>

Pixel(ok) ==
    /\ SamplesDone(runA, cam)
    /\ runA' = WritePixel(runA, cam, ok)
    /\ UNCHANGED <<callVars, hitVars, cam, build, runB>>

Line(ok) ==
    /\ runA.pc = "newline"
    /\ runA' = NewLine(runA, cam, ok)
    /\ UNCHANGED <<callVars, hitVars, cam, build, runB>>

RenderNext ==
    \/ \E ok \in BOOLEAN : Header(ok)
    \/ \E j \in JitterDraws : Sample(j)
    \/ \E vec \in BounceVecs : Color(vec)
    \/ \E ok \in BOOLEAN : Pixel(ok)
    \/ \E ok \in BOOLEAN : Line(ok)

SpecRender == RenderInit /\ [][RenderNext]_vars

----------------------------------------------------------------------------
(* What render writes, stated from the image alone *)

\* the write expected at position i of the sink of a w-wide image: the
\* header, then for each row its w pixels from left to right and a line break
ExpectedWrite(i, w) ==
    IF i = 1 THEN [kind |-> "H", u |-> 0, v |-> 0]
    ELSE IF (i - 2) % (w + 1) = w
         THEN [kind |-> "N", u |-> w, v |-> (i - 2) \div (w + 1)]
         ELSE [kind |-> "P", u |-> (i - 2) % (w + 1), v |-> (i - 2) \div (w + 1)]

SameWrite(e, x) == e.kind = x.kind /\ e.u = x.u /\ e.v = x.v

Entries(run, kind) == {i \in 1..Len(run.log) : run.log[i].kind = kind}

\* colours write_color can be given: negative, zero, inside (0,1], above 1,
\* infinite and NaN (0/0, when sample_per_pixel is 0)
ChannelInputs ==
    {NaN, INF, NegINF, R(-2), Q(-1, 4), R(0), Q(1, 16), Q(1, 4), Q(1, 2),
     Q(9, 16), R(1), Q(5, 4), R(4), R(300)}

\* C5: render writes the header "P3 / width height / 255" first and once,
\* then for each row v = 0..height-1 its pixels u = 0..width-1 in order and
\* one line break; a successful render has written width*height triplets
\* and height line breaks; every channel written is an integer in 0..255,
\* for every colour and also when sample_per_pixel is not positive
C5_RenderOutput ==
    /\ \A i \in 1..Len(runA.log) :
          SameWrite(runA.log[i], ExpectedWrite(i, cam.image.width))
    /\ (Len(runA.log) >= 1 /\ runA.log[1].ok) =>
          runA.header = <<"P3", cam.image.width, cam.image.height, 255>>
    /\ runA.pc = "ok" =>
          /\ Cardinality(Entries(runA, "H")) = 1
          /\ Cardinality(Entries(runA, "P")) = cam.image.width * cam.image.height
          /\ Cardinality(Entries(runA, "N")) = cam.image.height
          /\ Len(runA.log) = 1 + cam.image.height * (cam.image.width + 1)
    /\ runA.last # <<>> =>
          /\ Len(runA.last) = 3
          /\ \A k \in 1..3 : runA.last[k] \in 0..255
    /\ \A x \in ChannelInputs : Channel(x) \in 0..255

\* a whole image of several rows and columns was written with
\* sample_per_pixel = 0
C5_Witness ==
    /\ runA.pc = "ok"
    /\ cam.image.width = 2
    /\ cam.image.height = 2
    /\ cam.sample_per_pixel = 0
    /\ runA.last = <<0, 0, 0>>

\* C6: a failed write (header, triplet or line break) is the last thing
\* render does: render returns that failure, no write follows it and no
\* further pixel is computed; a render that returned Ok had no failed write
C6_FailedWriteAborts ==
    /\ \A i \in 1..Len(runA.log) :
          ~runA.log[i].ok => (i = Len(runA.log) /\ runA.pc = "err")
    /\ runA.pc = "err" => (Len(runA.log) >= 1 /\ ~runA.log[Len(runA.log)].ok)
    /\ runA.pc = "ok" => \A i \in 1..Len(runA.log) : runA.log[i].ok
    /\ runA.pixels = Cardinality(Entries(runA, "P"))
    /\ runA.pc = "err" => runA.rc.st \in {"none", "returned"}

\* the write of a pixel in the middle of the image failed
C6_Witness ==
    /\ runA.pc = "err"
    /\ Len(runA.log) = 3
    /\ runA.log[3].kind = "P"
    /\ cam.image.width = 2
    /\ cam.image.height = 2

----------------------------------------------------------------------------
(* The camera: Camera::new, the setup main.rs makes through its public     *)
(* fields and set_viewport_from_height, and calls of get_ray.              *)

FocalLengths == {R(1), R(2)}

Centers == {VZero, V(0, 0, 1), V(1, -1, 0)}

ViewportHeights == {R(2), R(1)}

CameraInit ==
    /\ \E w \in 1..MaxWidth, h \in 1..MaxHeight : cam = CameraNew(Image(w, h))
    /\ world = <<>>
    /\ build = "release"
    /\ runA = IdleRun
    /\ runB = IdleRun
    /\ ray = Ray(VZero, VZero)
    /\ bound = Positive
    /\ idx = 0
    /\ scan = [ret |-> None, closest |-> INF]
    /\ rec = None
    /\ args = <<>>
    /\ ret = None
    /\ pc = "camera"

\* camera.focal_length = f
SetFocalLength(f) ==
    /\ pc = "camera"
    /\ cam' = [cam EXCEPT !.focal_length = f]
    /\ runA' = IdleRun
    /\ UNCHANGED <<callVars, hitVars, build, runB>>

\* camera.center = p
SetCenter(p) ==
    /\ pc = "camera"
    /\ cam' = [cam EXCEPT !.center = p]
    /\ runA' = IdleRun
    /\ UNCHANGED <<callVars, hitVars, build, runB>>

\* camera.set_viewport_from_height(h)
SetViewport(h) ==
    /\ pc = "camera"
    /\ cam' = SetViewportFromHeight(cam, h)
    /\ runA' = IdleRun
    /\ UNCHANGED <<callVars, hitVars, build, runB>>

\* self.get_ray(u, v, &self.viewport_context()), with the two values
\* normal_random() returns to sample_square
CallGetRay(u, v, j) ==
    /\ pc = "camera"
    /\ runA' = BeginSample([IdleRun EXCEPT !.pc = "sample", !.u = u, !.v = v],
                           cam, j[1], j[2])
    /\ UNCHANGED <<callVars, hitVars, cam, build, runB>>

CameraNext ==
    \/ \E f \in FocalLengths : SetFocalLength(f)
    \/ \E p \in Centers : SetCenter(p)
    \/ \E h \in ViewportHeights : SetViewport(h)
    \/ \E u \in 0..(cam.image.width - 1), v \in 0..(cam.image.height - 1),
          j \in JitterDraws : CallGetRay(u, v, j)

SpecCamera == CameraInit /\ [][CameraNext]_vars

\* the pixel-centre point of (u, v), from the fields of the camera
PixelCentre(c, u, v) ==
    Vec3(RAdd(RSub(c.center[1], RDiv(c.viewport_width, R(2))),
              RMul(RDiv(c.viewport_width, R(c.image.width)), Q(2 * u + 1, 2))),
         RSub(RAdd(c.center[2], RDiv(c.viewport_height, R(2))),
              RMul(RDiv(c.viewport_height, R(c.image.height)), Q(2 * v + 1, 2))),
         RSub(c.center[3], c.focal_length))

\* C10: with the jitter offset (0,0), the ray get_ray returns for the pixel
\* (u, v), 0 <= u < width, 0 <= v < height, starts at the camera center and
\* passes (at t = 1) through upper_left_pixel + u*delta_u + v*delta_v, where
\* upper_left_pixel = center - (0,0,focal_length) - (viewport_u+viewport_v)/2
\* + (delta_u+delta_v)/2, delta_u = viewport_u/width, delta_v = viewport_v/height
C10_ThroughPixelCentre ==
    (runA.pc = "color" /\ runA.offset = VZero) =>
        /\ runA.u \in 0..(cam.image.width - 1)
        /\ runA.v \in 0..(cam.image.height - 1)
        /\ runA.rc.ray.origin = cam.center
        /\ At(runA.rc.ray, R(1)) = PixelCentre(cam, runA.u, runA.v)

\* the ray of the last pixel of a 2x2 image, of a camera moved off the
\* origin and set up with a viewport
C10_Witness ==
    /\ runA.pc = "color"
    /\ runA.offset = VZero
    /\ runA.u = 1
    /\ runA.v = 1
    /\ cam.image.width = 2
    /\ cam.center = V(1, -1, 0)
    /\ cam.focal_length = R(2)
    /\ cam.viewport_height = R(2)
    /\ runA.rc.ray.direction = Vec3(Q(1, 2), Q(-1, 2), R(-2))

----------------------------------------------------------------------------
(* ppm::write_color on a colour, as a function of the colour *)

GammaInit ==
    /\ \E x \in ChannelInputs, y \in ChannelInputs :
          runA = [RenderEnter EXCEPT !.pc = "sample", !.color = Vec3(x, y, R(0))]
    /\ cam = NoCamera
    /\ world = <<>>
    /\ build = "release"
    /\ runB = IdleRun
    /\ ray = Ray(VZero, VZero)
    /\ bound = Positive
    /\ idx = 0
    /\ scan = [ret |-> None, closest |-> INF]
    /\ rec = None
    /\ args = <<>>
    /\ ret = None
    /\ pc = "gamma"

\* ppm::write_color(target, &color)
WriteColorCall(ok) ==
    /\ pc = "gamma"
    /\ runA.pc = "sample"
    /\ runA' = WriteColor(runA, cam, runA.color, ok)
    /\ UNCHANGED <<callVars, hitVars, cam, build, runB>>

GammaNext == \E ok \in BOOLEAN : WriteColorCall(ok)

SpecGamma == GammaInit /\ [][GammaNext]_vars

\* g is the square root of x, to the rounding of f64::sqrt
IsRootOf(g, x) ==
    /\ RLe(R(0), g)
    /\ RLe(RMul(RSub(g, Q(1, 2 * SqrtDen)), RSub(g, Q(1, 2 * SqrtDen))), x)
          \/ RLe(g, Q(1, 2 * SqrtDen))
    /\ RLe(x, RMul(RAdd(g, Q(1, 2 * SqrtDen)), RAdd(g, Q(1, 2 * SqrtDen))))

\* the numbers whose root has SqrtBits binary places
BinarySquares == {Q(k * k, SqrtDen * SqrtDen) : k \in 1..SqrtDen}

\* k = trunc(255 * clamp(g, 0, 0.999))
IsChannelOf(k, g) ==
    IF RLt(g, R(0)) THEN k = 0
    ELSE IF RGt(g, Q(999, 1000)) THEN k = 254
    ELSE RLe(R(k), RMul(R(255), g)) /\ RLt(RMul(R(255), g), R(k + 1))

\* C9: linear_to_gamma(x) is 0 for x <= 0 and sqrt(x) for x in (0,1], and
\* is non-decreasing in x; the channel write_color writes is
\* trunc(255 * clamp(linear_to_gamma(x), 0, 0.999)), 0 for x <= 0 and
\* non-decreasing in x
C9_GammaMonotone ==
    runA.last # <<>> =>
        /\ RLe(runA.arg[1], R(0)) =>
              (LinearToGamma(runA.arg[1]) = R(0) /\ runA.last[1] = 0)
        /\ (RLt(R(0), runA.arg[1]) /\ RLe(runA.arg[1], R(1))) =>
              IsRootOf(LinearToGamma(runA.arg[1]), runA.arg[1])
        /\ runA.arg[1] \in BinarySquares =>
              RMul(LinearToGamma(runA.arg[1]), LinearToGamma(runA.arg[1])) = runA.arg[1]
        /\ RLe(runA.arg[1], runA.arg[2]) =>
              /\ RLe(LinearToGamma(runA.arg[1]), LinearToGamma(runA.arg[2]))
              /\ runA.last[1] <= runA.last[2]
        /\ ~IsNaN(runA.arg[1]) =>
              IsChannelOf(runA.last[1], LinearToGamma(runA.arg[1]))

\* 1/4 and 4 were written: 127 = trunc(255 * 0.5), 254 = trunc(255 * 0.999)
C9_Witness ==
    /\ runA.arg = Vec3(Q(1, 4), R(4), R(0))
    /\ runA.last = <<127, 254, 0>>

----------------------------------------------------------------------------
(* Camera::ray_color(ray, world, depth), a call at a time, for the depths  *)
(* an i16 can hold.                                                        *)

ColorDepths == {I16Min, -1, 0, 1, MaxDepth}

\* a ray that meets SmallSphere and one that does not
ColorRays == {Ray(VZero, V(0, 0, -1)), Ray(VZero, V(0, 1, 0))}

ColorScenes == {<<>>, <<SmallSphere>>}

\* the random vectors of the bounces: against the normal, and across it
ColorBounceVecs == {V(0, 0, -1), V(0, -1, 0)}

ColorInit ==
    /\ world \in ColorScenes
    /\ build \in {"debug", "release"}
    /\ \E r \in ColorRays, d \in ColorDepths :
          /\ cam = [NoCamera EXCEPT !.max_recursion_depth = d]
          /\ runA = [IdleRun EXCEPT !.pc = "color", !.rc = RayColorEnter(r, d)]
    /\ runB = IdleRun
    /\ ray = Ray(VZero, VZero)
    /\ bound = Positive
    /\ idx = 0
    /\ scan = [ret |-> None, closest |-> INF]
    /\ rec = None
    /\ args = <<>>
    /\ ret = None
    /\ pc = "color"

\* the nested calls followed are capped at MaxCalls
ColorNext == \E vec \in ColorBounceVecs : runA.rc.calls < MaxCalls /\ Color(vec)

SpecColor == ColorInit /\ [][ColorNext]_vars

\* the nested calls a budget of d allows
Budget(d) == IF d > 0 THEN d ELSE 0

\* C7: for every i16 depth, negative ones included, ray_color terminates:
\* the call with depth 0 returns black without testing the scene, every
\* bounce recurses with depth - 1, and a call started with depth d makes at
\* most d nested recursive calls (and does not panic)
C7_DepthBudget ==
    /\ runA.rc.calls <= Budget(runA.rc.start)
    /\ runA.rc.st # "panicked"
    /\ (runA.rc.st = "returned" /\ runA.rc.start = 0) =>
          (runA.rc.result = Black /\ runA.rc.tests = 0)

\* what holds in its place: a call started with depth d >= 0 makes at most
\* d nested calls and returns; each bounce carries depth - 1
DepthBudgetOfNonNegative ==
    /\ runA.rc.start >= 0 =>
          /\ runA.rc.calls <= runA.rc.start
          /\ runA.rc.st # "panicked"
          /\ runA.rc.depth = runA.rc.start - runA.rc.calls
    /\ (runA.rc.st = "returned" /\ runA.rc.start = 0) =>
          (runA.rc.result = Black /\ runA.rc.tests = 0)

\* a call started with depth -1 has recursed past its budget
C7_Overrun ==
    /\ runA.rc.start = -1
    /\ runA.rc.calls = MaxCalls
    /\ runA.rc.depth = -1 - MaxCalls
    /\ runA.rc.st = "call"

----------------------------------------------------------------------------
(* Two calls of render on the same camera and scene, with                  *)
(* sample_per_pixel = 1 and sample_square fixed at (0,0): runA goes up to  *)
(* its next write, then runB up to the same write. The random vectors of   *)
(* the bounces are drawn anew in each.                                     *)

MidSphere == SphereNew(V(0, 0, -1), Q(3, 4))

ReproScenes == {<<>>, <<SmallSphere>>, <<MidSphere>>}

\* the values of normal_random() that make sample_square (0,0)
NoJitter == <<Q(1, 2), Q(1, 2)>>

ReproInit ==
    /\ world \in ReproScenes
    /\ \E w \in 1..MaxWidth, h \in 1..MaxHeight, d \in 0..MaxDepth :
          cam = MainCamera(w, h, 1, d)
    /\ build = "release"
    /\ runA = RenderEnter
    /\ runB = RenderEnter
    /\ ray = Ray(VZero, VZero)
    /\ bound = Positive
    /\ idx = 0
    /\ scan = [ret |-> None, closest |-> INF]
    /\ rec = None
    /\ args = <<>>
    /\ ret = None
    /\ pc = "render"

TurnA == Len(runA.log) = Len(runB.log)

TurnB == Len(runB.log) < Len(runA.log)

HeaderA ==
    /\ TurnA /\ runA.pc = "header"
    /\ runA' = RenderHeader(runA, cam, TRUE)
    /\ UNCHANGED <<callVars, hitVars, cam, build, runB>>

SampleA ==
    /\ TurnA /\ MoreSamples(runA, cam)
    /\ runA' = BeginSample(runA, cam, NoJitter[1], NoJitter[2])
    /\ UNCHANGED <<callVars, hitVars, cam, build, runB>>

ColorA(vec) ==
    /\ TurnA /\ runA.pc = "color"
    /\ runA' = ColorStep(runA, world, vec, build)
    /\ UNCHANGED <<callVars, hitVars, cam, build, runB>>

PixelA ==
    /\ TurnA /\ SamplesDone(runA, cam)
    /\ runA' = WritePixel(runA, cam, TRUE)
    /\ UNCHANGED <<callVars, hitVars, cam, build, runB>>

LineA ==
    /\ TurnA /\ runA.pc = "newline"
    /\ runA' = NewLine(runA, cam, TRUE)
    /\ UNCHANGED <<callVars, hitVars, cam, build, runB>>

HeaderB ==
    /\ TurnB /\ runB.pc = "header"
    /\ runB' = RenderHeader(runB, cam, TRUE)
    /\ UNCHANGED <<callVars, hitVars, cam, build, runA>>

SampleB ==
    /\ TurnB /\ MoreSamples(runB, cam)
    /\ runB' = BeginSample(runB, cam, NoJitter[1], NoJitter[2])
    /\ UNCHANGED <<callVars, hitVars, cam, build, runA>>

ColorB(vec) ==
    /\ TurnB /\ runB.pc = "color"
    /\ runB' = ColorStep(runB, world, vec, build)
    /\ UNCHANGED <<callVars, hitVars, cam, build, runA>>

PixelB ==
    /\ TurnB /\ SamplesDone(runB, cam)
    /\ runB' = WritePixel(runB, cam, TRUE)
    /\ UNCHANGED <<callVars, hitVars, cam, build, runA>>

LineB ==
    /\ TurnB /\ runB.pc = "newline"
    /\ runB' = NewLine(runB, cam, TRUE)
    /\ UNCHANGED <<callVars, hitVars, cam, build, runA>>

ReproNext ==
    \/ HeaderA
    \/ SampleA
    \/ \E vec \in BounceVecs : ColorA(vec)
    \/ PixelA
    \/ LineA
    \/ HeaderB
    \/ SampleB
    \/ \E vec \in BounceVecs : ColorB(vec)
    \/ PixelB
    \/ LineB

SpecRepro == ReproInit /\ [][ReproNext]_vars

\* the two runs have made the same writes, with the same content
SameOutput ==
    /\ runA.log = runB.log
    /\ runA.header = runB.header
    /\ runA.last = runB.last

\* both runs are at the same write, with one sample per pixel and no jitter
SameProgress ==
    /\ Len(runA.log) = Len(runB.log)
    /\ cam.sample_per_pixel = 1
    /\ runA.jitter0 /\ runB.jitter0

----------------------------------------------------------------------------
(* math.rs: calls of Vec3::cross *)

CrossComponents == {R(-1), R(0), R(1)}

CrossVecs == {Vec3(x, y, z) : x \in CrossComponents, y \in CrossComponents,
                              z \in CrossComponents}

CrossInit ==
    /\ args = <<>>
    /\ ret = None
    /\ world = <<>>
    /\ ray = Ray(VZero, VZero)
    /\ bound = Positive
    /\ idx = 0
    /\ scan = [ret |-> None, closest |-> INF]
    /\ rec = None
    /\ pc = "math"
    /\ cam = NoCamera
    /\ build = "release"
    /\ runA = IdleRun
    /\ runB = IdleRun

\* the call a.cross(&v)
CrossCall(a, v) ==
    /\ pc = "math"
    /\ ret = None
    /\ args' = <<a, v>>
    /\ ret' = Some(Cross(a, v))
    /\ UNCHANGED <<hitVars, renderVars>>

CrossNext == \E a \in CrossVecs, v \in CrossVecs : CrossCall(a, v)

SpecCross == CrossInit /\ [][CrossNext]_vars

\* the cross product of a and b, with the components numbered from 0 as in
\* (a1*b2 - a2*b1, a2*b0 - a0*b2, a0*b1 - a1*b0)
CrossProduct(a, b) ==
    Vec3(RSub(RMul(a[2], b[3]), RMul(a[3], b[2])),
         RSub(RMul(a[3], b[1]), RMul(a[1], b[3])),
         RSub(RMul(a[1], b[2]), RMul(a[2], b[1])))

\* C11: Vec3::cross(a, b) is the cross product of a and b, and so is
\* orthogonal to a and to b
C11_CrossProduct ==
    IsSome(ret) =>
        /\ Unwrap(ret) = CrossProduct(args[1], args[2])
        /\ Dot(Unwrap(ret), args[1]) = R(0)
        /\ Dot(Unwrap(ret), args[2]) = R(0)

\* what holds in its place: the first and third components are those of the
\* cross product and the second is its opposite
CrossMiddleNegated ==
    IsSome(ret) =>
        /\ Unwrap(ret)[1] = CrossProduct(args[1], args[2])[1]
        /\ Unwrap(ret)[2] = RNeg(CrossProduct(args[1], args[2])[2])
        /\ Unwrap(ret)[3] = CrossProduct(args[1], args[2])[3]

\* (1,1,0) x (0,0,1) came out as (1,1,0), which is not orthogonal to (1,1,0)
C11_NotOrthogonal ==
    /\ args = <<V(1, 1, 0), V(0, 0, 1)>>
    /\ ret = Some(V(1, 1, 0))
    /\ Dot(Unwrap(ret), args[1]) = R(2)

----------------------------------------------------------------------------
(* image.rs: calls of the constructors of Image *)

\* the widths and heights of the calls: around zero, and the ends of i32
ImageSizes == (-2..(MaxWidth + 2)) \cup {I32Min, I32Max}

ImageWidths == -2..(MaxWidth + 2)

\* the aspect ratios of the calls
AspectRatios == {NaN, R(0), R(-1), Q(1, 3), Q(1, 2), R(1), Q(16, 9), R(2), R(5)}

ImageInit ==
    /\ args = <<>>
    /\ ret = None
    /\ world = <<>>
    /\ ray = Ray(VZero, VZero)
    /\ bound = Positive
    /\ idx = 0
    /\ scan = [ret |-> None, closest |-> INF]
    /\ rec = None
    /\ pc = "image"
    /\ cam = NoCamera
    /\ build = "release"
    /\ runA = IdleRun
    /\ runB = IdleRun

\* the call Image::new(width, height)
NewCall(width, height) ==
    /\ pc = "image"
    /\ ret = None
    /\ args' = <<"new", width, height>>
    /\ ret' = ImageNew(width, height)
    /\ UNCHANGED <<hitVars, renderVars>>

\* the call Image::from_aspect_ratio(width, aspect_ratio)
FromAspectRatioCall(width, aspect_ratio) ==
    /\ pc = "image"
    /\ ret = None
    /\ args' = <<"from_aspect_ratio", width, aspect_ratio>>
    /\ ret' = FromAspectRatio(width, aspect_ratio)
    /\ UNCHANGED <<hitVars, renderVars>>

ImageNext ==
    \/ \E w \in ImageSizes, h \in ImageSizes : NewCall(w, h)
    \/ \E w \in ImageWidths, r \in AspectRatios : FromAspectRatioCall(w, r)

SpecImage == ImageInit /\ [][ImageNext]_vars

\* width / r truncated toward zero, for a ratio r that is a number and not 0
TruncatedQuotient(width, r) ==
    IF (width * r.d >= 0) = (r.n > 0)
    THEN (Abs(width) * r.d) \div Abs(r.n)
    ELSE -((Abs(width) * r.d) \div Abs(r.n))

\* the result res is that of the validation of width and height
Validated(res, width, height) ==
    /\ res.ok <=> (width >= 1 /\ height >= 1)
    /\ res.ok => (res.value.width = width /\ res.value.height = height)

\* C12: Image::new(width, height) is Ok with exactly that width and height
\* iff width >= 1 and height >= 1, an error otherwise; from_aspect_ratio
\* validates the same way with height = width / r truncated toward zero; no
\* constructor yields an Image with width < 1 or height < 1
C12_ImageValidated ==
    ret # None =>
        /\ args[1] = "new" => Validated(ret, args[2], args[3])
        /\ (args[1] = "from_aspect_ratio" /\ IsFinite(args[3]) /\ args[3].n # 0) =>
              Validated(ret, args[2], TruncatedQuotient(args[2], args[3]))
        /\ ret.ok => (ret.value.width >= 1 /\ ret.value.height >= 1
                      /\ ret.value.width = args[2])

\* from_aspect_ratio(4, 16/9) gave the image 4 x 2
C12_Witness ==
    /\ args = <<"from_aspect_ratio", 4, Q(16, 9)>>
    /\ ret = Ok(Image(4, 2))

----------------------------------------------------------------------------
(* HittableList::hit on lists of spheres that touch: a call, an iteration  *)
(* of its loop at a time.                                                  *)

\* two spheres that touch at (0,0,-1), and one behind them
ScanSpheres ==
    {SphereNew(V(0, 0, -2), R(1)), SphereNew(V(0, 0, 0), R(1)),
     SphereNew(V(0, 0, -5), R(1))}

ScanWorlds == UNION {[1..n -> ScanSpheres] : n \in 0..MaxObjects}

ScanOrigins == {V(0, 0, 0), V(0, 0, 1)}

ScanBounds ==
    {Positive, Interval(R(0), R(1)), Interval(R(1), R(3)), Interval(R(0), R(4))}

ScanInit ==
    /\ world \in ScanWorlds
    /\ ray = Ray(VZero, VZero)
    /\ bound = Positive
    /\ idx = 0
    /\ scan = [ret |-> None, closest |-> INF]
    /\ rec = None
    /\ args = <<>>
    /\ ret = None
    /\ pc = "build"
    /\ cam = NoCamera
    /\ build = "release"
    /\ runA = IdleRun
    /\ runB = IdleRun

ScanNext ==
    \/ \E o \in ScanOrigins, b \in ScanBounds : HitEnter(o, V(0, 0, -1), b)
    \/ HitStep
    \/ HitReturn

SpecScan == ScanInit /\ [][ScanNext]_vars

\* the scan that tests each object against [min, closest]: a hit it finds
\* lies in that interval and becomes the result
Taken(st, found) ==
    IF IsSome(found) THEN [ret |-> found, closest |-> Unwrap(found).t] ELSE st

RECURSIVE ShrinkFrom(_, _, _, _, _)
ShrinkFrom(st, objects, i, r, min) ==
    IF i > Len(objects) THEN st
    ELSE ShrinkFrom(Taken(st, SphereHit(objects[i], r, Interval(min, st.closest))),
                    objects, i + 1, r, min)

ShrinkingScan(objects, r, b) ==
    ShrinkFrom([ret |-> None, closest |-> b.max], objects, 1, r, b.min).ret

\* the same scan, keeping a hit only if it is strictly below closest
RECURSIVE StrictFrom(_, _, _, _, _)
StrictFrom(st, objects, i, r, min) ==
    IF i > Len(objects) THEN st
    ELSE StrictFrom(Closer(st, SphereHit(objects[i], r, Interval(min, st.closest))),
                    objects, i + 1, r, min)

StrictShrinkingScan(objects, r, b) ==
    StrictFrom([ret |-> None, closest |-> b.max], objects, 1, r, b.min).ret

\* C13: for every object list, ray and interval, HittableList::hit returns
\* what the scan that tests each object against [min, closest] returns: the
\* same presence, t and winning object, also on a tie and at t = max
C13_ShrinkingScan ==
    pc = "done" => scan.ret = ShrinkingScan(world, ray, bound)

\* what holds in its place: it returns what the shrinking scan returns when
\* that scan keeps only a hit strictly below closest
ScanIsStrictShrinking ==
    pc = "done" => scan.ret = StrictShrinkingScan(world, ray, bound)

\* a tie: the ray from the origin meets both touching spheres at t = 1; the
\* code returned the hit of the first (front face), the shrinking scan
\* returns that of the second (back face)
C13_Tie ==
    /\ pc = "done"
    /\ bound = Positive
    /\ Len(world) = 2
    /\ IsSome(scan.ret)
    /\ Unwrap(scan.ret).t = R(1)
    /\ Unwrap(scan.ret).front_face = Some(TRUE)
    /\ Unwrap(ShrinkingScan(world, ray, bound)).t = R(1)
    /\ Unwrap(ShrinkingScan(world, ray, bound)).front_face = Some(FALSE)

====
